---- MODULE Spec2Model ----
(***************************************************************************)
(* Order lifecycle and payment dispatch of the 3D figurine platform        *)
(* backend: OrderService (services/database.ts), the order controllers     *)
(* (controllers/orderController.ts), the payment endpoints                 *)
(* (routes/paymentController.ts) and the four gateway adapters behind      *)
(* PaymentManager (services/payment.ts).                                   *)
(*                                                                         *)
(* Every handler is an async function; the event loop may run another      *)
(* request at each await.  A handler that reads the order and writes it    *)
(* later is therefore split at the await between the read and the write    *)
(* (Begin / Finish); a handler with a single database operation is one     *)
(* action.  prisma.order.update with a nested timeline create is one       *)
(* database transaction, so the status write and the timeline append are   *)
(* one step.                                                               *)
(*                                                                         *)
(* Authentication and authorization (authenticateToken, requireRole, the   *)
(* ownership tests) are collaborators outside this model: every request    *)
(* modelled here has passed them.                                          *)
(***************************************************************************)
EXTENDS Integers, Sequences, FiniteSets, TLC

\* ------------------------------------------------------------------ bounds
MaxOrders == 2
MaxPayments == 2
MaxInFlight == 2
MaxTotal == 3
MaxCents == 150
MaxAmount == 100

\* --------------------------------------------------------------- constants
OrderStatuses ==
  {"pending", "confirmed", "design_approved", "in_production",
   "quality_check", "packaging", "shipped", "delivered", "cancelled"}

\* A status string outside the enumeration, as a request body may carry it.
OtherStatus == "refunded"

\* The target statuses the admin requests of the model carry: a late stage,
\* both terminal statuses and the value outside the enumeration (confirmed
\* is written by the payment paths).
StatusInputs == {"shipped", "delivered", "cancelled", OtherStatus}

Methods == {"stripe", "paypal", "wechat", "alipay"}

\* A method identifier that is not registered, and an absent one.
OtherMethod == "bitcoin"
NoMethod == "none"
MethodInputs == Methods \cup {OtherMethod, NoMethod}

\* Order ids a request may name: the existing ones and one that never exists.
OrderIdInputs == 1..(MaxOrders + 1)
NoOrderId == 0

PaymentIdInputs == 1..(MaxPayments + 1)

\* The totals (sums of the item totals) of the orders of the model.  No
\* handler reads an order's total after createOrder has stored it, so one
\* value stands for all.
AmountInputs == {299}

VARIABLES
  orders,    \* Seq of [status, timeline, totalAmount]: the order table, ids
             \* 1..Len(orders)
  payments,  \* Seq of [method, orderId, paid, embedded]: sessions held by
             \* the providers, each for the order it was created for
  reqs,      \* in-flight handlers, suspended between their read and their write
  response,  \* what the handler that has just returned sent out: its HTTP
             \* response, not yet received by the client, and the outcome of
             \* the buyer email it invoked (NoResponse: none)
  call       \* a call of one of the pure functions of PaymentManager and the
             \* gateway adapters, with its arguments and its result
             \* (NoCall: none)

vars == <<orders, payments, reqs, response, call>>

\* ----------------------------------------------------------------- helpers
Slots == 1..MaxInFlight

Idle == [kind |-> "idle", orderId |-> 0, snap |-> "", target |-> "",
         method |-> "", requested |-> "", paymentId |-> 0]

Busy == {s \in Slots : reqs[s].kind # "idle"}

HasFree == Busy # Slots

FreeSlot == CHOOSE s \in Slots \ Busy : \A t \in Slots \ Busy : s <= t

RECURSIVE TimelineEntries(_, _)
TimelineEntries(os, n) ==
  IF n = 0 THEN 0 ELSE Len(os[n].timeline) + TimelineEntries(os, n - 1)

\* Everything the model holds: timeline entries, provider sessions and
\* suspended handlers.  The bound MaxTotal caps it.
Size == TimelineEntries(orders, Len(orders)) + Len(payments) + Cardinality(Busy)

Room == Size < MaxTotal

\* orderId and status: the order of `data` when the response returns one;
\* email: "none" when the handler invoked no buyer email, else the outcome
\* of EmailService ("sent", "failed").
Resp(handler, http, success, code) ==
  [handler |-> handler, http |-> http, success |-> success, code |-> code,
   failedCount |-> 0, orderId |-> 0, status |-> "", email |-> "none",
   emailOld |-> "", emailNew |-> ""]

NoResponse == Resp("none", 0, TRUE, "NONE")

\* A response is received by its client before the next handler step runs.
Ready == response = NoResponse

NoCall == [fn |-> "none"]

getStatusTitle(status) ==
  CASE status = "pending" -> "t_pending"
    [] status = "confirmed" -> "t_confirmed"
    [] status = "design_approved" -> "t_design_approved"
    [] status = "in_production" -> "t_in_production"
    [] status = "quality_check" -> "t_quality_check"
    [] status = "packaging" -> "t_packaging"
    [] status = "shipped" -> "t_shipped"
    [] status = "delivered" -> "t_delivered"
    [] status = "cancelled" -> "t_cancelled"
    [] OTHER -> "t_status_update"

\* getOrderById(id) returns an order (not null).
OrderExists(id) == id \in DOMAIN orders

\* updateOrderStatus with the nested timeline create left out.
updateOrderStatus_StatusOnly(os, id, status, note) ==
  [os EXCEPT ![id].status = status]

\* updateOrderStatus that keeps one timeline entry, the current one, in
\* the place of the log.
updateOrderStatus_Rewrites(os, id, status, note) ==
  [os EXCEPT ![id].status = status,
             ![id].timeline = <<[status |-> status,
                                 title |-> getStatusTitle(status),
                                 description |-> note]>>]

\* OrderService.updateOrderStatus on an existing order: one transaction that
\* sets the status and appends the timeline entry.  (On a missing order
\* prisma throws; the callers test OrderExists first or catch.)
updateOrderStatus(os, id, status, note) ==
  [os EXCEPT ![id].status = status,
             ![id].timeline = Append(@, [status |-> status,
                                         title |-> getStatusTitle(status),
                                         description |-> note])]

\* ------------------------------------------------- IEEE 754 double arithmetic
\* Amounts are JavaScript numbers: binary64 values, every operation rounded
\* to nearest, ties to even.  A double is [m, e] with value m * 2^e, where m
\* is a natural number of exactly 53 bits (or 0, with e = 0).  Naturals
\* beyond 32 bits are sequences of limbs below Limb, least significant
\* first, without leading zero limbs.
Limb == 2 ^ 20
MantissaBits == 53

RECURSIVE BigFromInt(_)
BigFromInt(n) == IF n = 0 THEN <<>> ELSE <<n % Limb>> \o BigFromInt(n \div Limb)

RECURSIVE BigToInt(_)
BigToInt(x) == IF x = <<>> THEN 0 ELSE Head(x) + Limb * BigToInt(Tail(x))

RECURSIVE BigNorm(_)
BigNorm(x) ==
  IF x = <<>> THEN x
  ELSE IF x[Len(x)] = 0 THEN BigNorm(SubSeq(x, 1, Len(x) - 1)) ELSE x

\* x * c + carry, for 0 <= c <= 1024.
RECURSIVE BigMulAdd(_, _, _)
BigMulAdd(x, c, carry) ==
  IF x = <<>> THEN BigFromInt(carry)
  ELSE LET v == Head(x) * c + carry
       IN  <<v % Limb>> \o BigMulAdd(Tail(x), c, v \div Limb)

BigMul(x, c) == BigNorm(BigMulAdd(x, c, 0))

BigInc(x) == BigMulAdd(x, 1, 1)

\* Quotient (with leading zero limbs) and remainder of x by d, 1 <= d <= 1024.
RECURSIVE BigDivRem(_, _)
BigDivRem(x, d) ==
  IF x = <<>> THEN [q |-> <<>>, r |-> 0]
  ELSE LET hi == BigDivRem(Tail(x), d)
           v == hi.r * Limb + Head(x)
       IN  [q |-> <<v \div d>> \o hi.q, r |-> v % d]

BigDiv(x, d) == BigNorm(BigDivRem(x, d).q)

BigMod(x, d) == BigDivRem(x, d).r

RECURSIVE IntBits(_)
IntBits(n) == IF n = 0 THEN 0 ELSE 1 + IntBits(n \div 2)

BigBits(x) ==
  IF x = <<>> THEN 0
  ELSE IntBits(Limb - 1) * (Len(x) - 1) + IntBits(x[Len(x)])

\* x * 2^k and floor(x / 2^k), k >= 0.
RECURSIVE BigShl(_, _)
BigShl(x, k) ==
  IF k = 0 THEN x
  ELSE IF k >= 10 THEN BigShl(BigMul(x, 1024), k - 10)
  ELSE BigShl(BigMul(x, 2), k - 1)

RECURSIVE BigShr(_, _)
BigShr(x, k) ==
  IF k = 0 THEN x
  ELSE IF k >= 10 THEN BigShr(BigDiv(x, 1024), k - 10)
  ELSE BigShr(BigDiv(x, 2), k - 1)

DoubleZero == [m |-> <<>>, e |-> 0]

\* The double nearest to (n + f) * 2^e, where n is a natural of at least 53
\* bits and 0 <= f < 1 is known by guard (f >= 1/2) and sticky (f is neither
\* 0 nor 1/2): bits leave n on the right one at a time, then round to
\* nearest, ties to even.
RECURSIVE RoundNearestEven(_, _, _, _)
RoundNearestEven(n, e, guard, sticky) ==
  IF BigBits(n) > MantissaBits
  THEN RoundNearestEven(BigDiv(n, 2), e + 1, BigMod(n, 2) = 1, sticky \/ guard)
  ELSE IF guard /\ (sticky \/ BigMod(n, 2) = 1)
       THEN LET up == BigInc(n)
            IN  IF BigBits(up) > MantissaBits
                THEN [m |-> BigDiv(up, 2), e |-> e + 1]
                ELSE [m |-> up, e |-> e]
       ELSE [m |-> n, e |-> e]

\* The double nearest to n / d, for naturals n < 2^20 and 1 <= d <= 1024:
\* a numeric literal such as 0.029, or the division of two exact doubles.
DoubleOfRatio(n, d) ==
  IF n = 0 THEN DoubleZero
  ELSE LET scaled == BigDivRem(BigShl(BigFromInt(n), 64), d)
       IN  RoundNearestEven(BigNorm(scaled.q), 0 - 64, FALSE, scaled.r # 0)

\* x * c in double arithmetic, for a double x and an integer 0 <= c <= 1024.
DoubleTimes(x, c) ==
  IF x.m = <<>> \/ c = 0 THEN DoubleZero
  ELSE RoundNearestEven(BigMul(x.m, c), x.e, FALSE, FALSE)

\* Math.floor(x) and Math.round(x) = floor(x + 1/2), for 0 <= x < 2^30.
MathFloor(x) ==
  IF x.m = <<>> THEN 0
  ELSE IF x.e >= 0 THEN BigToInt(BigShl(x.m, x.e))
  ELSE BigToInt(BigShr(x.m, 0 - x.e))

MathRound(x) ==
  IF x.m = <<>> THEN 0
  ELSE IF x.e >= 0 THEN BigToInt(BigShl(x.m, x.e))
  ELSE (BigToInt(BigShr(x.m, (0 - x.e) - 1)) + 1) \div 2

\* -------------------------------------------------------------------- Init
Init ==
  /\ orders = <<>>
  /\ payments = <<>>
  /\ reqs = [s \in Slots |-> Idle]
  /\ response = NoResponse
  /\ call = NoCall

\* ---------------------------------------------------------------- createOrder
\* createOrder that stores the order as already confirmed.
CreateOrder_Confirmed(totalAmount, emailOk) ==
  /\ Ready
  /\ Len(orders) < MaxOrders
  /\ Room
  /\ orders' = Append(orders,
       [status |-> "confirmed",
        timeline |-> <<[status |-> "confirmed", title |-> "t_order_created",
                        description |-> "order created, awaiting payment"]>>,
        totalAmount |-> totalAmount])
  /\ response' = [Resp("createOrder", 201, TRUE, "OK")
                    EXCEPT !.orderId = Len(orders) + 1, !.status = "confirmed",
                           !.email = IF emailOk THEN "sent" ELSE "failed"]
  /\ UNCHANGED <<payments, reqs, call>>

\* The createOrder handler: OrderService.createOrder (status pending, one
\* timeline entry, the total computed from the items), then the order
\* confirmation email, whose outcome emailOk the handler does not read.
CreateOrder(totalAmount, emailOk) ==
  /\ Ready
  /\ Len(orders) < MaxOrders
  /\ Room
  /\ orders' = Append(orders,
       [status |-> "pending",
        timeline |-> <<[status |-> "pending", title |-> "t_order_created",
                        description |-> "order created, awaiting payment"]>>,
        totalAmount |-> totalAmount])
  /\ response' = [Resp("createOrder", 201, TRUE, "OK")
                    EXCEPT !.orderId = Len(orders) + 1, !.status = "pending",
                           !.email = IF emailOk THEN "sent" ELSE "failed"]
  /\ UNCHANGED <<payments, reqs, call>>

\* ------------------------------------------------ admin updateOrderStatus
\* validateRequest('order', 'updateStatus') validates req['updateStatus'],
\* which is undefined, so the body's status reaches the handler unchecked.
\* The note of the admin requests of the model.
AdminNote == "admin note"

UpdateOrderStatusBegin(id, status) ==
  /\ Ready
  /\ IF ~OrderExists(id)
     THEN /\ response' = Resp("updateOrderStatus", 404, FALSE, "ORDER_NOT_FOUND")
          /\ UNCHANGED <<orders, payments, reqs, call>>
     ELSE /\ HasFree /\ Room
          /\ reqs' = [reqs EXCEPT ![FreeSlot] =
               [Idle EXCEPT !.kind = "updateOrderStatus", !.orderId = id,
                            !.snap = orders[id].status, !.target = status]]
          /\ UNCHANGED <<orders, payments, response, call>>

\* The response of a handler that returns the updated order after the
\* status update notification; sendOrderStatusUpdate settles both sends
\* (Promise.allSettled) and the handler does not read its outcome emailOk.
\* NotificationService.sendOrderStatusUpdate: the old and the new status the
\* message names; the new one is the status field of the order object it
\* is given.
sendOrderStatusUpdate(orderStatus, oldStatus) ==
  [old |-> oldStatus, new |-> orderStatus]

\* read: the status of the order as the handler read it before its write;
\* the handler passes that same object to the notification.
UpdatedResp(handler, id, status, read, emailOk) ==
  LET mail == sendOrderStatusUpdate(read, read) IN
    [Resp(handler, 200, TRUE, "OK")
       EXCEPT !.orderId = id, !.status = status,
              !.email = IF emailOk THEN "sent" ELSE "failed",
              !.emailOld = mail.old, !.emailNew = mail.new]

\* updateOrderStatus that undoes its write when the notification fails.
UpdateOrderStatusFinish_RollsBack(s, emailOk) ==
  /\ Ready
  /\ reqs[s].kind = "updateOrderStatus"
  /\ orders' = IF emailOk
               THEN updateOrderStatus(orders, reqs[s].orderId, reqs[s].target,
                                      AdminNote)
               ELSE orders
  /\ reqs' = [reqs EXCEPT ![s] = Idle]
  /\ response' = UpdatedResp("updateOrderStatus", reqs[s].orderId,
                             reqs[s].target, reqs[s].snap, emailOk)
  /\ UNCHANGED <<payments, call>>

UpdateOrderStatusFinish(s, emailOk) ==
  /\ Ready
  /\ reqs[s].kind = "updateOrderStatus"
  /\ orders' = updateOrderStatus(orders, reqs[s].orderId, reqs[s].target,
                                  AdminNote)
  /\ reqs' = [reqs EXCEPT ![s] = Idle]
  /\ response' = UpdatedResp("updateOrderStatus", reqs[s].orderId,
                             reqs[s].target, reqs[s].snap, emailOk)
  /\ UNCHANGED <<payments, call>>

\* -------------------------------------------------------------- cancelOrder
CancelOrderBegin(id) ==
  /\ Ready
  /\ IF ~OrderExists(id)
     THEN /\ response' = Resp("cancelOrder", 404, FALSE, "ORDER_NOT_FOUND")
          /\ UNCHANGED <<orders, payments, reqs, call>>
     ELSE IF orders[id].status \notin {"pending", "confirmed"}
     THEN /\ response' = Resp("cancelOrder", 400, FALSE, "CANNOT_CANCEL_ORDER")
          /\ UNCHANGED <<orders, payments, reqs, call>>
     ELSE /\ HasFree /\ Room
          /\ reqs' = [reqs EXCEPT ![FreeSlot] =
               [Idle EXCEPT !.kind = "cancelOrder", !.orderId = id,
                            !.snap = orders[id].status, !.target = "cancelled"]]
          /\ UNCHANGED <<orders, payments, response, call>>

CancelOrderFinish(s, emailOk) ==
  /\ Ready
  /\ reqs[s].kind = "cancelOrder"
  /\ orders' = updateOrderStatus(orders, reqs[s].orderId, "cancelled",
                                  "cancelled by user")
  /\ reqs' = [reqs EXCEPT ![s] = Idle]
  /\ response' = UpdatedResp("cancelOrder", reqs[s].orderId, "cancelled",
                             reqs[s].snap, emailOk)
  /\ UNCHANGED <<payments, call>>

\* ----------------------------------------------------- batchUpdateOrderStatus
\* The loop body is one unconditional write per id and reads nothing, so a
\* batch interleaved with other requests equals shorter batches run in turn;
\* the loop is modelled as one step.
RECURSIVE BatchApply(_, _, _, _)
BatchApply(os, ids, status, note) ==
  IF ids = <<>> THEN os
  ELSE BatchApply(IF Head(ids) \in DOMAIN os
                  THEN updateOrderStatus(os, Head(ids), status, note) ELSE os,
                  Tail(ids), status, note)

BatchFailed(ids) == Cardinality({i \in DOMAIN ids : ~OrderExists(ids[i])})

\* The orderIds lists of the model: empty, one id, two ids.
BatchInputs ==
  {<<>>} \cup {<<a>> : a \in OrderIdInputs}
         \cup {<<a, b>> : a \in OrderIdInputs, b \in OrderIdInputs}

BatchUpdateOrderStatus(ids, status) ==
  /\ Ready
  /\ IF Len(ids) = 0
     THEN /\ response' = Resp("batchUpdateOrderStatus", 400, FALSE, "INVALID_ORDER_IDS")
          /\ UNCHANGED <<orders, payments, reqs, call>>
     ELSE /\ Size + (Len(ids) - BatchFailed(ids)) <= MaxTotal
          /\ orders' = BatchApply(orders, ids, status, AdminNote)
          /\ response' = [Resp("batchUpdateOrderStatus", 200, TRUE, "OK")
                            EXCEPT !.failedCount = BatchFailed(ids)]
          /\ UNCHANGED <<payments, reqs, call>>

\* ------------------------------------------------------ gateway adapters
\* An ApiResponse of PaymentManager: success flag, error code, and the
\* normalized status of data (only verifyPayment fills it).
Result(success, code, status) ==
  [success |-> success, code |-> code, status |-> status]

\* The order id the handle of createPayment carries to the provider: stripe
\* puts it in metadata.orderId, paypal in the transaction's custom field;
\* the wechat and alipay handles hold a fresh transaction id and a QR code
\* made of it, and no order id.
EmbeddedOrderId(method, orderId) ==
  CASE method = "stripe" -> orderId
    [] method = "paypal" -> orderId
    [] method = "wechat" -> NoOrderId
    [] method = "alipay" -> NoOrderId

\* createPayment of the four adapters.  providerOk: the provider call
\* returned (stripe, paypal); the wechat and alipay adapters are simulated
\* and call no provider.
AdapterCreatePayment(method, providerOk) ==
  CASE method = "stripe" ->
         IF providerOk THEN Result(TRUE, "OK", "")
         ELSE Result(FALSE, "STRIPE_PAYMENT_ERROR", "")
    [] method = "paypal" ->
         IF providerOk THEN Result(TRUE, "OK", "")
         ELSE Result(FALSE, "PAYPAL_PAYMENT_ERROR", "")
    [] method = "wechat" -> Result(TRUE, "OK", "")
    [] method = "alipay" -> Result(TRUE, "OK", "")

\* PaymentManager.createPayment that falls back to the stripe adapter, as
\* the endpoint does, instead of rejecting.
PaymentManagerCreatePayment_FallsBack(method, providerOk) ==
  AdapterCreatePayment(IF method \in Methods THEN method ELSE "stripe",
                       providerOk)

PaymentManagerCreatePayment(method, providerOk) ==
  IF method \notin Methods
  THEN Result(FALSE, "UNSUPPORTED_PAYMENT_METHOD", "")
  ELSE AdapterCreatePayment(method, providerOk)

\* The adapters PaymentManager.createPayment calls: gateways.get(method),
\* when there is one.
PaymentManagerCreatePaymentInvokes(method) ==
  IF method \notin Methods THEN {} ELSE {method}

\* The provider holds a session pid of this method.
HasSession(method, pid) ==
  pid \in DOMAIN payments /\ payments[pid].method = method

\* verifyPayment of the four adapters.  A provider call that throws (no such
\* session, provider unreachable) is the case ~HasSession.
AdapterVerifyPayment(method, pid) ==
  CASE method = "stripe" ->
         IF ~HasSession("stripe", pid)
         THEN Result(FALSE, "STRIPE_VERIFICATION_ERROR", "")
         ELSE IF payments[pid].paid
         THEN Result(TRUE, "OK", "completed")
         ELSE Result(FALSE, "STRIPE_PAYMENT_NOT_COMPLETED", "")
    [] method = "paypal" ->
         IF ~HasSession("paypal", pid)
         THEN Result(FALSE, "PAYPAL_VERIFICATION_ERROR", "")
         ELSE IF payments[pid].paid
         THEN Result(TRUE, "OK", "completed")
         ELSE Result(FALSE, "PAYPAL_PAYMENT_NOT_COMPLETED", "")
    [] method = "wechat" -> Result(TRUE, "OK", "completed")
    [] method = "alipay" -> Result(TRUE, "OK", "completed")

PaymentManagerVerifyPayment(method, pid) ==
  IF method \notin Methods
  THEN Result(FALSE, "UNSUPPORTED_PAYMENT_METHOD", "")
  ELSE AdapterVerifyPayment(method, pid)

\* ------------------------------------------------------------ createPayment
\* PaymentManager.getSupportedMethods: the keys of the gateway map.
getSupportedMethods == Methods

\* The adapter the endpoint hands the payment to, with the requested method
\* passed through unchanged.
Gateway_KeepsMethod(method) == method

\* The adapter the endpoint hands the payment to.
Gateway(method) == IF method \in getSupportedMethods THEN method ELSE "stripe"

\* createPayment without the test of the order's status.
CreatePaymentBegin_NoStatusCheck(id, method) ==
  /\ Ready
  /\ IF ~OrderExists(id)
     THEN /\ response' = Resp("createPayment", 404, FALSE, "ORDER_NOT_FOUND")
          /\ UNCHANGED <<orders, payments, reqs, call>>
     ELSE /\ HasFree /\ Room
          /\ reqs' = [reqs EXCEPT ![FreeSlot] =
               [Idle EXCEPT !.kind = "createPayment", !.orderId = id,
                            !.method = Gateway(method), !.requested = method]]
          /\ UNCHANGED <<orders, payments, response, call>>

CreatePaymentBegin(id, method) ==
  /\ Ready
  /\ IF ~OrderExists(id)
     THEN /\ response' = Resp("createPayment", 404, FALSE, "ORDER_NOT_FOUND")
          /\ UNCHANGED <<orders, payments, reqs, call>>
     ELSE IF orders[id].status # "pending"
     THEN /\ response' = Resp("createPayment", 400, FALSE, "INVALID_ORDER_STATUS")
          /\ UNCHANGED <<orders, payments, reqs, call>>
     ELSE /\ HasFree /\ Room
          /\ reqs' = [reqs EXCEPT ![FreeSlot] =
               [Idle EXCEPT !.kind = "createPayment", !.orderId = id,
                            !.method = Gateway(method), !.requested = method]]
          /\ UNCHANGED <<orders, payments, response, call>>

\* createPayment that records the attempt before it knows the provider's
\* answer.
CreatePaymentFinish_RecordsFailed(s, providerOk) ==
  /\ Ready
  /\ reqs[s].kind = "createPayment"
  /\ Len(payments) < MaxPayments
  /\ payments' = Append(payments,
       [method |-> reqs[s].method, orderId |-> reqs[s].orderId, paid |-> FALSE,
        embedded |-> EmbeddedOrderId(reqs[s].method, reqs[s].orderId)])
  /\ LET result == PaymentManagerCreatePayment(reqs[s].method, providerOk) IN
       response' = IF result.success
                   THEN Resp("createPayment", 200, TRUE, "OK")
                   ELSE Resp("createPayment", 500, FALSE, result.code)
  /\ reqs' = [reqs EXCEPT ![s] = Idle]
  /\ UNCHANGED <<orders, call>>

CreatePaymentFinish(s, providerOk) ==
  /\ Ready
  /\ reqs[s].kind = "createPayment"
  /\ LET result == PaymentManagerCreatePayment(reqs[s].method, providerOk) IN
       IF result.success
       THEN /\ Len(payments) < MaxPayments
            /\ payments' = Append(payments,
                 [method |-> reqs[s].method, orderId |-> reqs[s].orderId,
                  paid |-> FALSE,
                  embedded |-> EmbeddedOrderId(reqs[s].method, reqs[s].orderId)])
            /\ response' = Resp("createPayment", 200, TRUE, "OK")
       ELSE /\ payments' = payments
            /\ response' = Resp("createPayment", 500, FALSE, result.code)
  /\ reqs' = [reqs EXCEPT ![s] = Idle]
  /\ UNCHANGED <<orders, call>>

\* The buyer completes the payment at the provider.
ProviderPays(pid) ==
  /\ Ready
  /\ pid \in DOMAIN payments
  /\ ~payments[pid].paid
  /\ payments' = [payments EXCEPT ![pid].paid = TRUE]
  /\ UNCHANGED <<orders, reqs, response, call>>

\* ------------------------------------------------------------ verifyPayment
\* getOrderById, the provider poll and the status write are three awaits.
\* The order read only decides existence and ownership, which never change
\* once true, so the read and the poll are one step (at the time of the
\* poll); the write is a later step.
VerifyPaymentBegin(pid, method, id) ==
  /\ Ready
  /\ IF method = NoMethod
     THEN /\ response' = Resp("verifyPayment", 400, FALSE, "NO_PAYMENT_METHOD")
          /\ UNCHANGED <<orders, payments, reqs, call>>
     ELSE IF ~OrderExists(id)
     THEN /\ response' = Resp("verifyPayment", 404, FALSE, "ORDER_NOT_FOUND")
          /\ UNCHANGED <<orders, payments, reqs, call>>
     ELSE LET result == PaymentManagerVerifyPayment(method, pid) IN
          IF result.success /\ result.status = "completed"
          THEN /\ HasFree /\ Room
               /\ reqs' = [reqs EXCEPT ![FreeSlot] =
                    [Idle EXCEPT !.kind = "verifyPayment", !.orderId = id,
                                 !.snap = orders[id].status,
                                 !.target = "confirmed"]]
               /\ UNCHANGED <<orders, payments, response, call>>
          ELSE /\ response' = Resp("verifyPayment", 200, result.success, result.code)
               /\ UNCHANGED <<orders, payments, reqs, call>>

VerifyPaymentFinish(s) ==
  /\ Ready
  /\ reqs[s].kind = "verifyPayment"
  /\ orders' = updateOrderStatus(orders, reqs[s].orderId, "confirmed",
                                  "payment verified")
  /\ response' = Resp("verifyPayment", 200, TRUE, "OK")
  /\ reqs' = [reqs EXCEPT ![s] = Idle]
  /\ UNCHANGED <<payments, call>>

\* ------------------------------------------------------------ refundPayment
\* refundPayment of the four adapters.  A provider call that throws (no such
\* payment, payment not paid, adapter not configured) is the error case;
\* the wechat and alipay adapters are simulated and always succeed.
AdapterRefundPayment(method, pid) ==
  CASE method = "stripe" ->
         IF HasSession("stripe", pid) /\ payments[pid].paid
         THEN Result(TRUE, "OK", "")
         ELSE Result(FALSE, "STRIPE_REFUND_ERROR", "")
    [] method = "paypal" ->
         IF HasSession("paypal", pid) /\ payments[pid].paid
         THEN Result(TRUE, "OK", "")
         ELSE Result(FALSE, "PAYPAL_REFUND_ERROR", "")
    [] method = "wechat" -> Result(TRUE, "OK", "")
    [] method = "alipay" -> Result(TRUE, "OK", "")

PaymentManagerRefundPayment(method, pid) ==
  IF method \notin Methods
  THEN Result(FALSE, "UNSUPPORTED_PAYMENT_METHOD", "")
  ELSE AdapterRefundPayment(method, pid)

\* refundPayment that books the refund on the order of the payment: a full
\* refund leaves a total of 0, a partial one a smaller total.
RefundPayment_DeductsTotal(pid, method, partial) ==
  /\ Ready
  /\ IF method = NoMethod
     THEN /\ response' = Resp("refundPayment", 400, FALSE, "NO_PAYMENT_METHOD")
          /\ orders' = orders
     ELSE LET result == PaymentManagerRefundPayment(method, pid) IN
          /\ response' = Resp("refundPayment", 200, result.success, result.code)
          /\ orders' = IF result.success /\ pid \in DOMAIN payments
                       THEN [orders EXCEPT ![payments[pid].orderId].totalAmount =
                               IF partial THEN @ - 1 ELSE 0]
                       ELSE orders
  /\ UNCHANGED <<payments, reqs, call>>

\* The refundPayment handler: the refund, of the whole payment or (partial)
\* of the amount the body names, is the provider's business; the handler
\* reads and writes no order.
RefundPayment(pid, method, partial) ==
  /\ Ready
  /\ IF method = NoMethod
     THEN response' = Resp("refundPayment", 400, FALSE, "NO_PAYMENT_METHOD")
     ELSE LET result == PaymentManagerRefundPayment(method, pid) IN
          response' = Resp("refundPayment", 200, result.success, result.code)
  /\ UNCHANGED <<orders, payments, reqs, call>>

\* ----------------------------------------------------------------- webhooks
\* A delivery carries an event kind, the order id its payload embeds
\* (NoOrderId: none) and a signature that is valid or not.
EventKinds == {"completed", "other"}

EmbeddedIds == {NoOrderId} \cup OrderIdInputs

\* express.json() runs before the /api routes, so req.body is the parsed
\* object and never the raw request body.
BodyIsRaw == FALSE

\* stripe.webhooks.constructEvent: throws unless the payload is the raw body
\* and the signature matches it.
constructEvent(raw, sigValid) == raw /\ sigValid

StripeHandleWebhook(raw, sigValid) ==
  IF constructEvent(raw, sigValid)
  THEN Result(TRUE, "OK", "")
  ELSE Result(FALSE, "STRIPE_WEBHOOK_ERROR", "")

\* PayPalPaymentGateway.handleWebhook does not read its signature argument.
PayPalHandleWebhook(sigValid) == Result(TRUE, "OK", "")

WeChatHandleWebhook == Result(TRUE, "OK", "")

AlipayHandleWebhook == Result(TRUE, "OK", "")

\* The common tail of the four endpoints: when the adapter accepted the
\* delivery and `confirms` holds, updateOrderStatus(oid, 'confirmed', note); a
\* throw of it (no such order) is caught and answered 400 WEBHOOK_ERROR;
\* otherwise the adapter's result is the answer.
WebhookTail(handler, result, confirms, oid, note) ==
  IF result.success /\ confirms
  THEN IF OrderExists(oid)
       THEN /\ Room
            /\ orders' = updateOrderStatus(orders, oid, "confirmed", note)
            /\ response' = Resp(handler, 200, TRUE, "OK")
       ELSE /\ orders' = orders
            /\ response' = Resp(handler, 400, FALSE, "WEBHOOK_ERROR")
  ELSE /\ orders' = orders
       /\ response' = Resp(handler, 200, result.success, result.code)

HandleStripeWebhook(kind, oid, sigValid) ==
  /\ Ready
  /\ WebhookTail("handleStripeWebhook", StripeHandleWebhook(BodyIsRaw, sigValid),
                 kind = "completed" /\ oid # NoOrderId, oid, "Stripe payment completed")
  /\ UNCHANGED <<payments, reqs, call>>

HandlePayPalWebhook(kind, oid, sigValid) ==
  /\ Ready
  /\ WebhookTail("handlePayPalWebhook", PayPalHandleWebhook(sigValid),
                 kind = "completed" /\ oid # NoOrderId, oid, "PayPal payment completed")
  /\ UNCHANGED <<payments, reqs, call>>

\* The wechat and alipay endpoints test out_trade_no only, not the event.
\* They hand the adapter '' for the signature, and the adapter checks
\* nothing: whether the delivery is authentic (sigValid) is never read.
HandleWeChatWebhook(kind, oid, sigValid) ==
  /\ Ready
  /\ WebhookTail("handleWeChatWebhook", WeChatHandleWebhook, oid # NoOrderId, oid,
                 "WeChat payment completed")
  /\ UNCHANGED <<payments, reqs, call>>

HandleAlipayWebhook(kind, oid, sigValid) ==
  /\ Ready
  /\ WebhookTail("handleAlipayWebhook", AlipayHandleWebhook, oid # NoOrderId, oid,
                 "Alipay payment completed")
  /\ UNCHANGED <<payments, reqs, call>>

\* The client receives the response (res.json has flushed).
DeliverResponse ==
  /\ ~Ready
  /\ response' = NoResponse
  /\ UNCHANGED <<orders, payments, reqs, call>>

\* The verify requests of the model; the wechat and alipay adapters and the
\* dispatcher's rejection do not look the payment id up.
VerifyInputs ==
  {r \in [pid : PaymentIdInputs, method : MethodInputs, id : OrderIdInputs] :
     r.method \notin {"stripe", "paypal"} => r.pid = 1}

\* The refund requests of the model, as VerifyInputs.
RefundInputs ==
  {r \in [pid : PaymentIdInputs, method : MethodInputs, partial : BOOLEAN] :
     r.method \notin {"stripe", "paypal"} => r.pid = 1}

Next ==
  \/ \E a \in AmountInputs, ok \in BOOLEAN : CreateOrder(a, ok)
  \/ \E id \in OrderIdInputs, st \in StatusInputs : UpdateOrderStatusBegin(id, st)
  \/ \E s \in Slots, ok \in BOOLEAN : UpdateOrderStatusFinish(s, ok)
  \/ \E id \in OrderIdInputs : CancelOrderBegin(id)
  \/ \E s \in Slots, ok \in BOOLEAN : CancelOrderFinish(s, ok)
  \/ \E ids \in BatchInputs, st \in StatusInputs : BatchUpdateOrderStatus(ids, st)
  \/ \E id \in OrderIdInputs, m \in MethodInputs : CreatePaymentBegin(id, m)
  \/ \E s \in Slots, ok \in BOOLEAN : CreatePaymentFinish(s, ok)
  \/ \E pid \in PaymentIdInputs : ProviderPays(pid)
  \/ \E r \in VerifyInputs : VerifyPaymentBegin(r.pid, r.method, r.id)
  \/ \E s \in Slots : VerifyPaymentFinish(s)
  \/ \E r \in RefundInputs : RefundPayment(r.pid, r.method, r.partial)
  \/ \E k \in EventKinds, oid \in EmbeddedIds, sig \in BOOLEAN :
       HandleStripeWebhook(k, oid, sig)
  \/ \E k \in EventKinds, oid \in EmbeddedIds, sig \in BOOLEAN :
       HandlePayPalWebhook(k, oid, sig)
  \/ \E k \in EventKinds, oid \in EmbeddedIds, sig \in BOOLEAN :
       HandleWeChatWebhook(k, oid, sig)
  \/ \E k \in EventKinds, oid \in EmbeddedIds, sig \in BOOLEAN :
       HandleAlipayWebhook(k, oid, sig)
  \/ DeliverResponse

Spec == Init /\ [][Next]_vars

\* ------------------------------------------------- calls of pure functions
\* PaymentManager.createPayment, calculateFees, getSupportedMethods and
\* getServiceStatus and the amount conversions of the stripe adapter read no
\* order and no payment.  CallsSpec calls each of them once on every input
\* of the sets below; call holds the arguments and then the result.

\* Provider amounts in minor units (cents).
CentsInputs == (0..MaxCents) \cup {4990, 100000}

\* Order amounts in whole currency units (100 is 100.00).
FeeAmountInputs == 1..MaxAmount

\* session.amount_total / 100 (verifyPayment): minor units to major units.
centsToMajor(cents) == DoubleOfRatio(cents, 100)

\* The conversion with Math.floor in the place of Math.round.
majorToCents_Floor(amount) == MathFloor(DoubleTimes(amount, 100))

\* Math.round(amount * 100) (createPayment, refundPayment): major units to
\* minor units.
majorToCents(amount) == MathRound(DoubleTimes(amount, 100))

\* feeRates[method] || 0.03: the literals of the rate table as doubles.
feeRate(method) ==
  CASE method = "stripe" -> DoubleOfRatio(29, 1000)
    [] method = "paypal" -> DoubleOfRatio(34, 1000)
    [] method = "wechat" -> DoubleOfRatio(6, 1000)
    [] method = "alipay" -> DoubleOfRatio(6, 1000)
    [] OTHER -> DoubleOfRatio(3, 100)

\* PaymentManager.calculateFees: amount * rate, one double multiplication
\* (amount is a whole number here).
calculateFees(amount, method) == DoubleTimes(feeRate(method), amount)

\* PaymentManager.getServiceStatus: true for every registered gateway.
\* configured: the methods whose credentials the configuration holds; the
\* function does not read it.
getServiceStatus(configured) == [m \in Methods |-> TRUE]

CallsInit ==
  /\ orders = <<>>
  /\ payments = <<>>
  /\ reqs = [s \in Slots |-> Idle]
  /\ response = NoResponse
  /\ \/ \E m \in Methods \cup {OtherMethod}, ok \in BOOLEAN :
          call = [fn |-> "createPayment", done |-> FALSE, method |-> m,
                  providerOk |-> ok, result |-> Result(FALSE, "", ""),
                  invoked |-> {}]
     \/ \E a \in FeeAmountInputs, m \in Methods \cup {OtherMethod} :
          call = [fn |-> "calculateFees", done |-> FALSE, amount |-> a,
                  method |-> m, fee |-> DoubleZero]
     \/ \E c \in CentsInputs :
          call = [fn |-> "roundTrip", done |-> FALSE, cents |-> c,
                  major |-> DoubleZero, minor |-> 0]
     \/ \E cfg \in SUBSET Methods :
          call = [fn |-> "getServiceStatus", done |-> FALSE,
                  configured |-> cfg, supported |-> {},
                  status |-> [m \in Methods |-> FALSE]]

CallCreatePayment ==
  /\ call.fn = "createPayment" /\ ~call.done
  /\ call' = [call EXCEPT
       !.done = TRUE,
       !.result = PaymentManagerCreatePayment(call.method, call.providerOk),
       !.invoked = PaymentManagerCreatePaymentInvokes(call.method)]
  /\ UNCHANGED <<orders, payments, reqs, response>>

CallCalculateFees ==
  /\ call.fn = "calculateFees" /\ ~call.done
  /\ call' = [call EXCEPT !.done = TRUE,
                          !.fee = calculateFees(call.amount, call.method)]
  /\ UNCHANGED <<orders, payments, reqs, response>>

\* A provider amount converted to major units and back.
CallRoundTrip ==
  /\ call.fn = "roundTrip" /\ ~call.done
  /\ call' = [call EXCEPT !.done = TRUE,
                          !.major = centsToMajor(call.cents),
                          !.minor = majorToCents(centsToMajor(call.cents))]
  /\ UNCHANGED <<orders, payments, reqs, response>>

\* GET /payments/methods: the registered methods and their enabled flags.
CallGetPaymentMethods ==
  /\ call.fn = "getServiceStatus" /\ ~call.done
  /\ call' = [call EXCEPT !.done = TRUE,
                          !.supported = getSupportedMethods,
                          !.status = getServiceStatus(call.configured)]
  /\ UNCHANGED <<orders, payments, reqs, response>>

CallsNext ==
  \/ CallCreatePayment
  \/ CallCalculateFees
  \/ CallRoundTrip
  \/ CallGetPaymentMethods

CallsSpec == CallsInit /\ [][CallsNext]_vars

\* ------------------------------------------------------------------ claims
ConfirmedEntries(o) ==
  Cardinality({i \in DOMAIN o.timeline : o.timeline[i].status = "confirmed"})

ConfirmedOrLater ==
  {"confirmed", "design_approved", "in_production", "quality_check",
   "packaging", "shipped", "delivered"}

\* A delivery, on the endpoint of method m, of the completed-payment event
\* that embeds order id.
CompletedDelivery(m, id) ==
  CASE m = "stripe" -> \E sig \in BOOLEAN : HandleStripeWebhook("completed", id, sig)
    [] m = "paypal" -> \E sig \in BOOLEAN : HandlePayPalWebhook("completed", id, sig)
    [] m = "wechat" -> \E sig \in BOOLEAN : HandleWeChatWebhook("completed", id, sig)
    [] m = "alipay" -> \E sig \in BOOLEAN : HandleAlipayWebhook("completed", id, sig)

WebhookNote(m) ==
  CASE m = "stripe" -> "Stripe payment completed"
    [] m = "paypal" -> "PayPal payment completed"
    [] m = "wechat" -> "WeChat payment completed"
    [] m = "alipay" -> "Alipay payment completed"

\* C1: in every reachable state, every order's status equals the status of
\* the last entry of its timeline.
C1_StatusIsLastTimelineEntry ==
  \A id \in DOMAIN orders :
    /\ Len(orders[id].timeline) >= 1
    /\ orders[id].status = orders[id].timeline[Len(orders[id].timeline)].status

\* An order that has gone through two transitions to different statuses.
C1_Witness ==
  \E id \in DOMAIN orders :
    /\ Len(orders[id].timeline) = 3
    /\ orders[id].timeline[2].status # orders[id].timeline[3].status
    /\ orders[id].timeline[2].status # "pending"

\* C2: once an order is delivered or cancelled, no step changes its status
\* or appends a timeline entry.
C2_TerminalIsFinal ==
  [][\A id \in DOMAIN orders :
       orders[id].status \in {"delivered", "cancelled"}
         => orders'[id] = orders[id]]_vars

\* C3: a step that makes an order cancelled starts from pending or
\* confirmed, whichever caller issues it; from any other status the order is
\* left unchanged.
C3_CancelOnlyFromPendingOrConfirmed ==
  [][\A id \in DOMAIN orders :
       (orders'[id] # orders[id] /\ orders'[id].status = "cancelled")
         => orders[id].status \in {"pending", "confirmed"}]_vars

\* C4: when a pending order was confirmed by a completed-payment delivery,
\* a second delivery of that event changes neither status nor timeline (one
\* confirmed entry remains) and returns success.
C4_SecondDeliveryIsNoOp ==
  [][\A id \in DOMAIN orders, m \in Methods :
       ( /\ Len(orders[id].timeline) = 2
         /\ orders[id].timeline[2].status = "confirmed"
         /\ orders[id].timeline[2].description = WebhookNote(m)
         /\ CompletedDelivery(m, id) )
         => (orders' = orders /\ response'.success)]_vars

\* C5: a completed-payment delivery for an order that is confirmed or at a
\* later stage keeps the order as it is and is not answered with an error.
C5_LateDeliveryIsNoOp ==
  [][\A id \in DOMAIN orders, m \in Methods :
       (orders[id].status \in ConfirmedOrLater /\ CompletedDelivery(m, id))
         => ( /\ orders'[id].status = orders[id].status
              /\ orders'[id].timeline = orders[id].timeline
              /\ response'.http = 200 )]_vars

\* C6: a verifyPayment request that read its order as pending and runs
\* concurrently with a completed-payment delivery leaves exactly one
\* confirmed timeline entry when it has written.
C6_VerifyAndWebhookConfirmOnce ==
  [][\A s \in Slots :
       (reqs[s].kind = "verifyPayment" /\ reqs[s].snap = "pending"
          /\ VerifyPaymentFinish(s))
         => ConfirmedEntries(orders'[reqs[s].orderId]) = 1]_vars

\* C7: a stripe or paypal delivery with an invalid signature is answered
\* with an error result and changes no order.
C7_InvalidSignatureRejected ==
  [][\A k \in EventKinds, oid \in EmbeddedIds :
       (HandleStripeWebhook(k, oid, FALSE) \/ HandlePayPalWebhook(k, oid, FALSE))
         => (orders' = orders /\ ~response'.success)]_vars

NotCompletedCodes ==
  {"STRIPE_PAYMENT_NOT_COMPLETED", "PAYPAL_PAYMENT_NOT_COMPLETED",
   "WECHAT_PAYMENT_NOT_COMPLETED", "ALIPAY_PAYMENT_NOT_COMPLETED"}

\* C8: verifying, with its own method, a payment the provider has not
\* reported paid answers success=false with a not-completed code and
\* neither writes nor schedules a write of the order.
C8_UnpaidVerifyNotCompleted ==
  [][\A r \in VerifyInputs :
       ( /\ HasSession(r.method, r.pid)
         /\ ~payments[r.pid].paid
         /\ VerifyPaymentBegin(r.pid, r.method, r.id)
         /\ OrderExists(r.id) )
         => ( /\ ~response'.success
              /\ response'.code \in NotCompletedCodes
              /\ reqs' = reqs
              /\ orders' = orders )]_vars

\* A step of the createPayment handler.
CreatePaymentStep ==
  \/ \E id \in OrderIdInputs, m \in MethodInputs : CreatePaymentBegin(id, m)
  \/ \E s \in Slots, ok \in BOOLEAN : CreatePaymentFinish(s, ok)

\* C9: no step of createPayment changes an order, and a createPayment that
\* fails records no payment attempt.
C9_CreatePaymentLeavesOrder ==
  [][CreatePaymentStep
       => ( /\ orders' = orders
            /\ (~response'.success => payments' = payments) )]_vars

\* A createPayment has failed at the provider for a pending order.
C9_Witness ==
  /\ response.handler = "createPayment"
  /\ response.http = 500
  /\ \E id \in DOMAIN orders : orders[id].status = "pending"

ActiveAttempts(id) ==
  {p \in DOMAIN payments : payments[p].orderId = id /\ ~payments[p].paid}

\* C10: every order has at most one active payment attempt.
C10_AtMostOneActiveAttempt ==
  \A id \in DOMAIN orders : Cardinality(ActiveAttempts(id)) <= 1

\* C11: when a pending order has a stripe payment, a stripe delivery of the
\* completed event with a valid signature and the order's id embedded makes
\* the order confirmed, appends exactly one timeline entry and invokes the
\* buyer email notification.
C11_StripeWebhookConfirmsAndNotifies ==
  [][\A id \in DOMAIN orders :
       ( /\ orders[id].status = "pending"
         /\ \E p \in DOMAIN payments : /\ payments[p].method = "stripe"
                                        /\ payments[p].orderId = id
         /\ HandleStripeWebhook("completed", id, TRUE) )
         => ( /\ orders'[id].status = "confirmed"
              /\ Len(orders'[id].timeline) = Len(orders[id].timeline) + 1
              /\ response'.email # "none" )]_vars

\* C12: PaymentManager.createPayment with a method that is not registered
\* returns the UNSUPPORTED_PAYMENT_METHOD error and calls no adapter; with a
\* registered method it calls that method's adapter and returns its result.
C12_CreatePaymentDispatch ==
  (call.fn = "createPayment" /\ call.done)
    => IF call.method \in {"stripe", "paypal", "wechat", "alipay"}
       THEN /\ call.invoked = {call.method}
            /\ call.result = AdapterCreatePayment(call.method, call.providerOk)
       ELSE /\ call.invoked = {}
            /\ ~call.result.success
            /\ call.result.code = "UNSUPPORTED_PAYMENT_METHOD"

\* createPayment has been called with an unregistered method.
C12_Witness ==
  call.fn = "createPayment" /\ call.done /\ call.method = OtherMethod

\* A request, on any calling path, for a transition of order id.
TransitionRequest(id) ==
  \/ \E st \in StatusInputs : UpdateOrderStatusBegin(id, st)
  \/ \E st \in StatusInputs : BatchUpdateOrderStatus(<<id>>, st)
  \/ CancelOrderBegin(id)
  \/ \E r \in VerifyInputs : r.id = id /\ VerifyPaymentBegin(r.pid, r.method, id)
  \/ \E m \in Methods : CompletedDelivery(m, id)

\* C13: a transition requested for an order id that does not exist is
\* answered with a client error (4xx) on every calling path and changes no
\* order.
C13_MissingOrderIsNotFound ==
  [][\A id \in OrderIdInputs :
       (~OrderExists(id) /\ TransitionRequest(id))
         => (orders' = orders /\ response'.http \in 400..499)]_vars

\* C14: in every reachable state every order's status is one of the nine
\* enumerated values.
C14_StatusIsEnumerated ==
  \A id \in DOMAIN orders :
    orders[id].status \in
      {"pending", "confirmed", "design_approved", "in_production",
       "quality_check", "packaging", "shipped", "delivered", "cancelled"}

\* The fixed rates in thousandths: 2.9%, 3.4%, 0.6%, 0.6%, and 3% for any
\* other method.
RatePermille(method) ==
  CASE method = "stripe" -> 29
    [] method = "paypal" -> 34
    [] method = "wechat" -> 6
    [] method = "alipay" -> 6
    [] OTHER -> 30

\* C15: calculateFees(amount, method) is the amount times the fixed rate of
\* the method, 3% for any other method: the number that the decimal
\* amount * rate denotes (2.90 for 100.00 by stripe).
C15_FeeIsAmountTimesRate ==
  (call.fn = "calculateFees" /\ call.done)
    => call.fee = DoubleOfRatio(call.amount * RatePermille(call.method), 1000)

\* C16: a provider amount in minor units converted to major units and back
\* is the same amount.
C16_CentsRoundTrip ==
  (call.fn = "roundTrip" /\ call.done) => call.minor = call.cents

\* An amount has made the round trip whose product with 100, in major
\* units, is not the whole number it came from (0.29 * 100 is
\* 28.999999999999996).
C16_Witness ==
  /\ call.fn = "roundTrip" /\ call.done
  /\ call.cents = 29
  /\ DoubleTimes(call.major, 100) # DoubleOfRatio(29, 1)

\* C17: every method stays registered, and a method is reported enabled
\* exactly when its adapter has its credentials.
C17_UnconfiguredIsUnavailable ==
  (call.fn = "getServiceStatus" /\ call.done)
    => /\ call.supported = {"stripe", "paypal", "wechat", "alipay"}
       /\ \A m \in call.supported : call.status[m] = (m \in call.configured)

\* C18: no step changes the totalAmount of an existing order.
C18_TotalAmountImmutable ==
  [][\A id \in DOMAIN orders :
       orders'[id].totalAmount = orders[id].totalAmount]_vars

\* A refund has succeeded for the paid payment of an order that has been
\* through a transition.
C18_Witness ==
  /\ response.handler = "refundPayment" /\ response.success
  /\ \E p \in DOMAIN payments :
       /\ payments[p].paid
       /\ AdapterRefundPayment(payments[p].method, p).success
       /\ Len(orders[payments[p].orderId].timeline) >= 2
       /\ orders[payments[p].orderId].totalAmount \in AmountInputs

\* C19: when a transition has been written and the notification that
\* follows it fails, the handler's step leaves the order with the new
\* status and the appended timeline entry.
C19_NotificationFailureKeepsTransition ==
  [][( /\ response'.email = "failed"
       /\ response'.handler \in {"updateOrderStatus", "cancelOrder"} )
       => LET id == response'.orderId IN
          /\ orders'[id].status = response'.status
          /\ Len(orders'[id].timeline) = Len(orders[id].timeline) + 1
          /\ orders'[id].timeline[Len(orders'[id].timeline)].status =
               response'.status]_vars

\* An admin update has moved an order to another status and its
\* notification has failed.
C19_Witness ==
  /\ response.handler = "updateOrderStatus"
  /\ response.email = "failed"
  /\ LET tl == orders[response.orderId].timeline IN
       /\ Len(tl) >= 2
       /\ tl[Len(tl)].status = response.status
       /\ tl[Len(tl) - 1].status # response.status

\* C20: createOrder yields an order of status pending whose timeline holds
\* exactly one entry, of status pending, and the first timeline entry of
\* every order is of status pending.
C20_OrdersStartPending ==
  /\ \A id \in DOMAIN orders : orders[id].timeline[1].status = "pending"
  /\ response.handler = "createOrder"
       => /\ response.orderId = Len(orders)
          /\ orders[response.orderId].status = "pending"
          /\ Len(orders[response.orderId].timeline) = 1

\* A second order has just been created while the first has moved on.
C20_Witness ==
  /\ response.handler = "createOrder"
  /\ response.orderId = 2
  /\ orders[1].status # "pending"

\* C21: on each of the four webhook endpoints a delivery of an event that is
\* not a completed payment changes no order.
C21_OtherEventChangesNothing ==
  [][\A oid \in EmbeddedIds, sig \in BOOLEAN :
       ( \/ HandleStripeWebhook("other", oid, sig)
         \/ HandlePayPalWebhook("other", oid, sig)
         \/ HandleWeChatWebhook("other", oid, sig)
         \/ HandleAlipayWebhook("other", oid, sig) )
         => orders' = orders]_vars

\* C22: the handle of every created payment embeds the identifier of the
\* order it was created for, so that the provider's events for it name that
\* order.
C22_HandleEmbedsOrderId ==
  \A p \in DOMAIN payments : payments[p].embedded = payments[p].orderId

\* C23: on the wechat and alipay endpoints a delivery that is not authentic
\* changes no order.
C23_UnauthenticatedChangesNothing ==
  [][\A k \in EventKinds, oid \in EmbeddedIds :
       (HandleWeChatWebhook(k, oid, FALSE) \/ HandleAlipayWebhook(k, oid, FALSE))
         => orders' = orders]_vars

\* The position of a status in the stage sequence.
Stage(status) ==
  CASE status = "pending" -> 1
    [] status = "confirmed" -> 2
    [] status = "design_approved" -> 3
    [] status = "in_production" -> 4
    [] status = "quality_check" -> 5
    [] status = "packaging" -> 6
    [] status = "shipped" -> 7
    [] status = "delivered" -> 8

StageStatuses ==
  {"pending", "confirmed", "design_approved", "in_production",
   "quality_check", "packaging", "shipped", "delivered"}

\* C24: a step that takes an order from one stage to another stage (not to
\* cancelled) never takes it to an earlier stage.
C24_StageNeverDecreases ==
  [][\A id \in DOMAIN orders :
       (orders[id].status \in StageStatuses /\ orders'[id].status \in StageStatuses)
         => Stage(orders'[id].status) >= Stage(orders[id].status)]_vars

\* The fixed title of each status.
StatusTitles ==
  [s \in {"pending", "confirmed", "design_approved", "in_production",
          "quality_check", "packaging", "shipped", "delivered", "cancelled"}
     |-> CASE s = "pending" -> "t_pending"
           [] s = "confirmed" -> "t_confirmed"
           [] s = "design_approved" -> "t_design_approved"
           [] s = "in_production" -> "t_in_production"
           [] s = "quality_check" -> "t_quality_check"
           [] s = "packaging" -> "t_packaging"
           [] s = "shipped" -> "t_shipped"
           [] s = "delivered" -> "t_delivered"
           [] s = "cancelled" -> "t_cancelled"]

\* C25: every step leaves the earlier timeline entries of every order as
\* they are and in place; the entries it appends carry the status the step
\* sets and the fixed title of that status; a handler's transition appends
\* exactly one entry (the batch handler one per id of its list), and a step
\* that appends nothing leaves the status alone.
C25_TimelineAppendOnly ==
  [][\A id \in DOMAIN orders :
       LET old == orders[id].timeline
           new == orders'[id].timeline
       IN  /\ Len(new) >= Len(old)
           /\ SubSeq(new, 1, Len(old)) = old
           /\ \A i \in (Len(old) + 1)..Len(new) :
                /\ new[i].status = orders'[id].status
                /\ new[i].status \in DOMAIN StatusTitles
                     => new[i].title = StatusTitles[new[i].status]
           /\ Len(new) = Len(old) => orders'[id].status = orders[id].status
           /\ response'.handler # "batchUpdateOrderStatus"
                => Len(new) <= Len(old) + 1]_vars

\* A batch that names an order twice has just appended two entries to it.
C25_Witness ==
  /\ response.handler = "batchUpdateOrderStatus"
  /\ \E id \in DOMAIN orders :
       /\ Len(orders[id].timeline) = 3
       /\ orders[id].timeline[2] = orders[id].timeline[3]

\* C26: a user cancellation writes cancelled only while the order's status
\* is pending or confirmed, also when another request has moved the order
\* since the cancellation read it.
C26_CancelWritesUnderGuard ==
  [][\A s \in Slots :
       (reqs[s].kind = "cancelOrder" /\ \E ok \in BOOLEAN : CancelOrderFinish(s, ok))
         => orders[reqs[s].orderId].status \in {"pending", "confirmed"}]_vars

\* C27: when the verify endpoint writes confirmed to an order, the provider
\* holds a paid payment that was created for that order.
C27_VerifyConfirmsPaidOrderOnly ==
  [][\A s \in Slots :
       (reqs[s].kind = "verifyPayment" /\ VerifyPaymentFinish(s))
         => \E p \in DOMAIN payments :
              payments[p].orderId = reqs[s].orderId /\ payments[p].paid]_vars

\* C28: the payment-creation endpoint hands a payment to an adapter only
\* for an order it finds pending; for an order in any other status it
\* answers INVALID_ORDER_STATUS, starts nothing and creates no payment; a
\* payment is only ever created by a request that was started this way.
C28_PaymentOnlyForPendingOrder ==
  [][/\ \A s \in Slots :
          (reqs[s].kind # "createPayment" /\ reqs'[s].kind = "createPayment")
            => /\ OrderExists(reqs'[s].orderId)
               /\ orders[reqs'[s].orderId].status = "pending"
     /\ \A id \in DOMAIN orders :
          (/\ orders[id].status # "pending"
           /\ \E m \in MethodInputs : CreatePaymentBegin(id, m))
            => /\ response'.code = "INVALID_ORDER_STATUS"
               /\ reqs' = reqs
               /\ payments' = payments
     /\ Len(payments') > Len(payments)
          => \E s \in Slots : reqs[s].kind = "createPayment" /\ reqs'[s].kind = "idle"]_vars

C28_Witness ==
  /\ response.handler = "createPayment"
  /\ response.code = "INVALID_ORDER_STATUS"
  /\ \E id \in DOMAIN orders : orders[id].status # "pending"

\* C29: the payment-creation endpoint never answers
\* UNSUPPORTED_PAYMENT_METHOD: a request whose method is unregistered or
\* absent is handed to the stripe adapter, any other to its own adapter.
C29_UnregisteredMethodGoesToStripe ==
  /\ response.handler = "createPayment" => response.code # "UNSUPPORTED_PAYMENT_METHOD"
  /\ \A s \in Slots :
       reqs[s].kind = "createPayment"
         => reqs[s].method = IF reqs[s].requested \in Methods
                             THEN reqs[s].requested ELSE "stripe"

C29_Witness ==
  \E s \in Slots, m \in {OtherMethod, NoMethod} :
    /\ reqs[s].kind = "createPayment"
    /\ reqs[s].requested = m
    /\ reqs[s].method = "stripe"

\* C30: the notification sent after an admin transition or a user
\* cancellation names as old status the status the order had before the
\* write and as new status the target that was written.
C30_NotificationNamesTransition ==
  [][(/\ response'.handler \in {"updateOrderStatus", "cancelOrder"}
      /\ response'.email = "sent")
       => /\ response'.emailOld = orders[response'.orderId].status
          /\ response'.emailNew = response'.status]_vars

====
